---------------------------- MODULE Spec2Model ----------------------------
(***************************************************************************)
(* Model of src/Dashboard.py: RetailDataProcessor (load_data,              *)
(* set_closed_days, set_special_dates, calculate_daily_weights) and        *)
(* ForecastingEngine (generate_forecast, distribute_budget).               *)
(*                                                                         *)
(* Floating-point columns are modelled as exact extended rationals: a      *)
(* pair <<n, d>> with d > 0 in lowest terms is the number n/d, <<0, 0>> is *)
(* NaN, <<1, 0>> is +inf and <<-1, 0>> is -inf.  Division by zero gives    *)
(* inf or NaN as IEEE/numpy do, and pandas' sum() and mean() skip NaN.     *)
(* Dates are proleptic Gregorian ordinals (datetime.date.toordinal).       *)
(***************************************************************************)
EXTENDS Integers, Sequences, FiniteSets, TLC

\* Python's None; an optional value is None or Some(v)
None == <<>>

Some(v) == <<v>>

(***************************************************************************)
(* Extended rational arithmetic (numpy float64 semantics, exact values).   *)
(***************************************************************************)
Abs(a) == IF a < 0 THEN -a ELSE a

Sign(a) == IF a < 0 THEN -1 ELSE IF a > 0 THEN 1 ELSE 0

RECURSIVE Gcd(_, _)
Gcd(a, b) == IF b = 0 THEN a ELSE Gcd(b, a % b)

NaN == <<0, 0>>

IsNaN(v) == v = NaN

IsFinite(v) == v[2] # 0

\* n/d in lowest terms with a positive denominator; x/0 is inf or NaN.
Frac(n, d) ==
    IF d = 0 THEN <<Sign(n), 0>>
    ELSE LET g == Gcd(Abs(n), Abs(d))
             s == IF d < 0 THEN -1 ELSE 1
         IN  <<s * (n \div g), s * (d \div g)>>

Num(i) == <<i, 1>>

Zero == Num(0)

Mul(a, b) ==
    IF IsNaN(a) \/ IsNaN(b) THEN NaN
    ELSE IF ~IsFinite(a) \/ ~IsFinite(b)
         THEN <<Sign(a[1]) * Sign(b[1]), 0>>
    ELSE LET g1 == Gcd(Abs(a[1]), b[2])
             g2 == Gcd(Abs(b[1]), a[2])
         IN  <<(a[1] \div g1) * (b[1] \div g2), (a[2] \div g2) * (b[2] \div g1)>>

Div(a, b) ==
    IF IsNaN(a) \/ IsNaN(b) THEN NaN
    ELSE IF ~IsFinite(b)
         THEN IF IsFinite(a) THEN Zero ELSE NaN
    ELSE IF ~IsFinite(a)
         THEN <<a[1] * (IF b[1] < 0 THEN -1 ELSE 1), 0>>
    ELSE IF b[1] = 0 THEN <<Sign(a[1]), 0>>
    ELSE Mul(a, <<Sign(b[1]) * b[2], Abs(b[1])>>)

Add(a, b) ==
    IF IsNaN(a) \/ IsNaN(b) THEN NaN
    ELSE IF ~IsFinite(a)
         THEN IF ~IsFinite(b) /\ b[1] # a[1] THEN NaN ELSE a
    ELSE IF ~IsFinite(b) THEN b
    ELSE LET g == Gcd(a[2], b[2])
         IN  Frac(a[1] * (b[2] \div g) + b[1] * (a[2] \div g),
                  (a[2] \div g) * b[2])

Neg(a) == <<-a[1], a[2]>>

Sub(a, b) == Add(a, Neg(b))

\* pandas Series.sum(): NaN entries are skipped, the empty sum is 0.
RECURSIVE SumRange(_, _, _)
SumRange(s, lo, hi) ==
    IF lo > hi THEN Zero
    ELSE IF lo = hi THEN (IF IsNaN(s[lo]) THEN Zero ELSE s[lo])
    ELSE LET mid == (lo + hi) \div 2
         IN  Add(SumRange(s, lo, mid), SumRange(s, mid + 1, hi))

SeriesSum(s) == SumRange(s, 1, Len(s))

SeriesCount(s) == Cardinality({i \in 1..Len(s) : ~IsNaN(s[i])})

\* pandas Series.mean(): the mean of the non-NaN entries, NaN if there are none.
SeriesMean(s) == Div(SeriesSum(s), Num(SeriesCount(s)))

(***************************************************************************)
(* Calendar (datetime.date / pandas Timestamp accessors).                  *)
(***************************************************************************)
IsLeap(y) == y % 4 = 0 /\ (y % 100 # 0 \/ y % 400 = 0)

DaysInMonth(y, m) ==
    IF m = 2 THEN (IF IsLeap(y) THEN 29 ELSE 28)
    ELSE IF m \in {4, 6, 9, 11} THEN 30 ELSE 31

RECURSIVE DaysBeforeMonth(_, _)
DaysBeforeMonth(y, m) ==
    IF m = 1 THEN 0 ELSE DaysBeforeMonth(y, m - 1) + DaysInMonth(y, m - 1)

DaysBeforeYear(y) ==
    (y - 1) * 365 + ((y - 1) \div 4) - ((y - 1) \div 100) + ((y - 1) \div 400)

Ymd2Ord(y, m, d) == DaysBeforeYear(y) + DaysBeforeMonth(y, m) + d

\* Timestamp.year
YearOf(o) ==
    LET n0   == o - 1
        n400 == n0 \div 146097
        r400 == n0 % 146097
        n100 == r400 \div 36524
        r100 == r400 % 36524
        n4   == r100 \div 1461
        r4   == r100 % 1461
        n1   == r4 \div 365
        y    == n400 * 400 + n100 * 100 + n4 * 4 + n1 + 1
    IN  IF n1 = 4 \/ n100 = 4 THEN y - 1 ELSE y

RECURSIVE MonthFrom(_, _, _)
MonthFrom(y, m, rest) ==
    IF rest <= DaysInMonth(y, m) THEN m ELSE MonthFrom(y, m + 1, rest - DaysInMonth(y, m))

\* Timestamp.month
MonthOf(o) == MonthFrom(YearOf(o), 1, o - DaysBeforeYear(YearOf(o)))

\* Timestamp.quarter
QuarterOf(o) == ((MonthOf(o) - 1) \div 3) + 1

\* Timestamp.weekday(): Monday is 0
WeekdayOf(o) == (o + 6) % 7

IsoWeek1Monday(y) ==
    LET firstday     == Ymd2Ord(y, 1, 1)
        firstweekday == (firstday + 6) % 7
        monday       == firstday - firstweekday
    IN  IF firstweekday > 3 THEN monday + 7 ELSE monday

\* Timestamp.isocalendar().week
IsoWeekOf(o) ==
    LET y  == YearOf(o)
        w1 == IsoWeek1Monday(y)
    IN  IF o < w1 THEN ((o - IsoWeek1Monday(y - 1)) \div 7) + 1
        ELSE IF (o - w1) \div 7 >= 52 /\ o >= IsoWeek1Monday(y + 1) THEN 1
        ELSE ((o - w1) \div 7) + 1

(***************************************************************************)
(* CSV input.  A file is [columns, rows]: the header, and one function     *)
(* from column name to cell per line.  A 'Data' cell is the text of a date *)
(* <<y, m, d>>; a percentage cell is a string of characters; the other     *)
(* cells are integers.                                                     *)
(***************************************************************************)
Digits == <<"0", "1", "2", "3", "4", "5", "6", "7", "8", "9">>

IsDigit(c) == \E i \in 1..10 : Digits[i] = c

DigitVal(c) == (CHOOSE i \in 1..10 : Digits[i] = c) - 1

ValidDate(c) ==
    /\ c[1] >= 1
    /\ c[2] \in 1..12
    /\ c[3] >= 1
    /\ c[3] <= DaysInMonth(c[1], c[2])

\* pd.to_datetime / the date parser of read_csv on one value
ToDatetime(c) == Ymd2Ord(c[1], c[2], c[3])

SeqToSet(s) == {s[i] : i \in 1..Len(s)}

\* pd.read_csv(file, parse_dates=['Data']): a missing 'Data' column raises;
\* a column with a value that is no date is left as text (dtype object).
ReadCsvFails(file) == "Data" \notin SeqToSet(file.columns)

ReadCsv(file) ==
    LET ok == \A i \in 1..Len(file.rows) : ValidDate(file.rows[i]["Data"])
    IN  [columns  |-> file.columns,
         datetime |-> ok,
         rows     |-> [i \in 1..Len(file.rows) |->
                          IF ok
                          THEN [file.rows[i] EXCEPT !["Data"] = ToDatetime(@)]
                          ELSE file.rows[i]]]

\* column_mapping of load_data (the columns this model's files carry)
ColumnMapping(c) ==
    CASE c = "Data" -> "date"
      [] c = "Incasso totale" -> "total_sales"
      [] c = "N. Scontrini" -> "num_receipts"
      [] c = "Pezzi per scontrino" -> "items_per_receipt"
      [] c = "Margine" -> "margin"
      [] c = "Sconto medio" -> "avg_discount"
      [] OTHER -> c

\* DataFrame.rename(columns=column_mapping)
Rename(t) ==
    [t EXCEPT
       !.columns = [j \in 1..Len(t.columns) |-> ColumnMapping(t.columns[j])],
       !.rows = [i \in 1..Len(t.rows) |->
                    [c \in {ColumnMapping(k) : k \in DOMAIN t.rows[i]} |->
                        t.rows[i][CHOOSE k \in DOMAIN t.rows[i] : ColumnMapping(k) = c]]]]

\* 'margin' in col or 'discount' in col
IsPercentageColumn(c) == c \in {"margin", "avg_discount"}

\* str.rstrip('%')
RECURSIVE RStripPercent(_)
RStripPercent(s) ==
    IF Len(s) > 0 /\ s[Len(s)] = "%" THEN RStripPercent(SubSeq(s, 1, Len(s) - 1))
    ELSE s

RECURSIVE DigitsValue(_)
DigitsValue(s) ==
    IF Len(s) = 0 THEN 0
    ELSE 10 * DigitsValue(SubSeq(s, 1, Len(s) - 1)) + DigitVal(s[Len(s)])

RECURSIVE Pow10(_)
Pow10(k) == IF k = 0 THEN 1 ELSE 10 * Pow10(k - 1)

\* float(s) for decimal text: digits with at most one point
IsFloatText(s) ==
    LET dots == {i \in 1..Len(s) : s[i] = "."}
    IN  /\ Cardinality(dots) <= 1
        /\ \A i \in 1..Len(s) : s[i] = "." \/ IsDigit(s[i])
        /\ \E i \in 1..Len(s) : IsDigit(s[i])

ParseFloat(s) ==
    LET dots == {i \in 1..Len(s) : s[i] = "."}
        p    == IF dots = {} THEN Len(s) + 1 ELSE CHOOSE i \in dots : TRUE
        ds   == SubSeq(s, 1, p - 1) \o SubSeq(s, p + 1, Len(s))
    IN  Frac(DigitsValue(ds), Pow10(Len(s) - p + (IF dots = {} THEN 1 ELSE 0)))

\* col.str.rstrip('%').astype('float') / 100 on one cell
PercentOk(cell) == IsFloatText(RStripPercent(cell))

ParsePercent(cell) == Div(ParseFloat(RStripPercent(cell)), Num(100))

ColumnOk(t, c) == \A i \in 1..Len(t.rows) : PercentOk(t.rows[i][c])

ConvertColumn(t, c) ==
    [t EXCEPT !.rows = [i \in 1..Len(t.rows) |->
                           [t.rows[i] EXCEPT ![c] = ParsePercent(@)]]]

\* the loop of lines 48-50 from the j-th column on; it stops at the first
\* column that does not convert, leaving the earlier ones converted
RECURSIVE ConvertPercentages(_, _)
ConvertPercentages(t, j) ==
    IF j > Len(t.columns) THEN [table |-> t, ok |-> TRUE]
    ELSE IF ~IsPercentageColumn(t.columns[j]) THEN ConvertPercentages(t, j + 1)
    ELSE IF ~ColumnOk(t, t.columns[j]) THEN [table |-> t, ok |-> FALSE]
    ELSE ConvertPercentages(ConvertColumn(t, t.columns[j]), j + 1)

TimeFeatures == <<"year", "quarter", "month", "week", "weekday">>

\* lines 53-57: the calendar columns derived from 'date'
AddTimeFeatures(t) ==
    [t EXCEPT
       !.columns = @ \o TimeFeatures,
       !.rows = [i \in 1..Len(t.rows) |->
                    LET r == t.rows[i]
                        d == r["date"]
                    IN  [c \in DOMAIN r \cup SeqToSet(TimeFeatures) |->
                            CASE c = "year" -> YearOf(d)
                              [] c = "quarter" -> QuarterOf(d)
                              [] c = "month" -> MonthOf(d)
                              [] c = "week" -> IsoWeekOf(d)
                              [] c = "weekday" -> WeekdayOf(d)
                              [] OTHER -> r[c]]]]

\* load_data as a function of the file: the exception raised (or "ok"), and
\* the values raw_data and processed_data hold when it returns or raises
\* (Some(v): the attribute was assigned v; None: it was not assigned).
LoadData(file) ==
    IF ReadCsvFails(file)
    THEN [outcome |-> "ValueError", raw |-> None, processed |-> None]
    ELSE LET raw == ReadCsv(file)
             cv  == ConvertPercentages(Rename(raw), 1)
         IN  IF ~cv.ok
             THEN [outcome |-> "ValueError", raw |-> Some(raw),
                   processed |-> Some(cv.table)]
             ELSE IF ~cv.table.datetime
             THEN [outcome |-> "AttributeError", raw |-> Some(raw),
                   processed |-> Some(cv.table)]
             ELSE [outcome |-> "ok", raw |-> Some(raw),
                   processed |-> Some(AddTimeFeatures(cv.table))]

(***************************************************************************)
(* RetailDataProcessor.calculate_daily_weights and the ForecastingEngine,  *)
(* as functions of the processor dp = [processed_data, closed_days,        *)
(* special_dates] the engine holds a reference to.                         *)
(***************************************************************************)
HasColumn(t, c) == c \in SeqToSet(t.columns)

\* a column of floats, held as a tuple so that it is evaluated once
Column(f) == f \o <<>>

\* a numeric column as a Series
Series(rows, c) == Column([i \in 1..Len(rows) |-> Num(rows[i][c])])

RowsWhere(rows, c, vals) ==
    LET Test(r) == r[c] \in vals
    IN  SelectSeq(rows, Test)

RECURSIVE SortedSeq(_)
SortedSeq(S) ==
    IF S = {} THEN <<>>
    ELSE LET m == CHOOSE a \in S : \A b \in S :
                     a[1] < b[1] \/ (a[1] = b[1] /\ a[2] <= b[2])
         IN  <<m>> \o SortedSeq(S \ {m})

\* groupby(['week', 'weekday'])['total_sales'].mean(): keys in sorted order
WeeklyPatterns(t) ==
    LET keys == SortedSeq({<<t.rows[i]["week"], t.rows[i]["weekday"]>> :
                              i \in 1..Len(t.rows)})
        Group(k) == LET Test(r) == r["week"] = k[1] /\ r["weekday"] = k[2]
                    IN  SelectSeq(t.rows, Test)
    IN  [keys   |-> keys,
         values |-> Column([j \in 1..Len(keys) |->
                              SeriesMean(Series(Group(keys[j]), "total_sales"))])]

\* processed_data[processed_data['date'].isin(special_dates)]['total_sales'].mean()
SpecialPatterns(t, special_dates) ==
    SeriesMean(Series(RowsWhere(t.rows, "date", special_dates), "total_sales"))

\* the exception calculate_daily_weights raises on dp, or "ok"
WeightsOutcome(dp) ==
    IF dp.processed_data = None THEN "AttributeError"
    ELSE IF ~HasColumn(dp.processed_data[1], "week")
            \/ ~HasColumn(dp.processed_data[1], "weekday")
            \/ ~HasColumn(dp.processed_data[1], "total_sales")
            \/ ~HasColumn(dp.processed_data[1], "date") THEN "KeyError"
    ELSE "ok"

\* calculate_daily_weights leaving the closed weekdays out of the weekly pattern
calculate_daily_weights_open_days(dp) ==
    LET t    == dp.processed_data[1]
        Open(r) == r["weekday"] \notin dp.closed_days
    IN  [weekly_patterns  |-> WeeklyPatterns([t EXCEPT !.rows = SelectSeq(t.rows, Open)]),
         special_patterns |-> SpecialPatterns(t, dp.special_dates)]

\* what calculate_daily_weights() returns
calculate_daily_weights(dp) ==
    [weekly_patterns  |-> WeeklyPatterns(dp.processed_data[1]),
     special_patterns |-> SpecialPatterns(dp.processed_data[1], dp.special_dates)]

RECURSIVE SumXY(_, _)
SumXY(y, i) ==
    IF i > Len(y) THEN Zero ELSE Add(Mul(Num(i - 1), y[i]), SumXY(y, i + 1))

\* scipy.stats.linregress(arange(len(y)), y): slope and intercept of the
\* least-squares line; with one point both are 0/0
Linregress(y) ==
    LET n   == Len(y)
        sx  == (n * (n - 1)) \div 2
        sxx == ((n - 1) * n * (2 * n - 1)) \div 6
        sy  == SeriesSum(y)
        slope == Div(Sub(Mul(Num(n), SumXY(y, 1)), Mul(Num(sx), sy)),
                     Num(n * sxx - sx * sx))
    IN  [slope     |-> slope,
         intercept |-> Sub(Div(sy, Num(n)), Mul(slope, Frac(sx, n)))]

periods == 365

MaxOf(S) == CHOOSE a \in S : \A b \in S : b <= a

\* "if base_year:" is taken for a year other than None and 0
Truthy(base_year) == base_year # None /\ base_year[1] # 0

\* line 91: data[data['year'] == base_year] when base_year is truthy
SelectData(t, base_year) ==
    IF Truthy(base_year)
    THEN [t EXCEPT !.rows = RowsWhere(t.rows, "year", {base_year[1]})]
    ELSE t

\* ForecastDates starting after the last day of the whole table
ForecastDatesOfWholeTable(t, data) ==
    LET start == MaxOf({t.rows[i]["date"] : i \in 1..Len(t.rows)}) + 1
    IN  Column([k \in 1..periods |-> start + (k - 1)])

\* lines 103-106: pd.date_range(start=data['date'].max() + 1 day, periods=365)
ForecastDates(t, data) ==
    LET start == MaxOf({data.rows[i]["date"] : i \in 1..Len(data.rows)}) + 1
    IN  Column([k \in 1..periods |-> start + (k - 1)])

\* line 107: slope * (len(data) + arange(365)) + intercept
Trend(lr, n) ==
    Column([k \in 1..periods |-> Add(Mul(lr.slope, Num(n + (k - 1))), lr.intercept)])

\* ApplyWeekly with a mask that compares the week alone
RECURSIVE ApplyWeeklyByWeek(_, _, _, _, _)
ApplyWeeklyByWeek(sf, week, weekday, wp, j) ==
    IF j > Len(wp.keys) THEN sf
    ELSE ApplyWeeklyByWeek(
           Column([k \in 1..Len(sf) |->
                      IF week[k] = wp.keys[j][1]
                      THEN Mul(sf[k], Div(wp.values[j], SeriesMean(wp.values)))
                      ELSE sf[k]]),
           week, weekday, wp, j + 1)

\* lines 114-116, from the j-th key on: the rows of each (week, weekday) key
\* in turn are multiplied by weight / weekly_pattern.mean()
RECURSIVE ApplyWeekly(_, _, _, _, _)
ApplyWeekly(sf, week, weekday, wp, j) ==
    IF j > Len(wp.keys) THEN sf
    ELSE ApplyWeekly(
           Column([k \in 1..Len(sf) |->
                      IF week[k] = wp.keys[j][1] /\ weekday[k] = wp.keys[j][2]
                      THEN Mul(sf[k], Div(wp.values[j], SeriesMean(wp.values)))
                      ELSE sf[k]]),
           week, weekday, wp, j + 1)

\* lines 119-123, from the j-th special date of the iteration on: the row of
\* a special date in the horizon is multiplied by special_pattern / the mean
\* of the forecast as it stands
RECURSIVE ApplySpecial(_, _, _, _, _)
ApplySpecial(sf, dates, sp, order, j) ==
    IF j > Len(order) THEN sf
    ELSE IF order[j] \in SeqToSet(dates)
    THEN LET factor == Div(sp, SeriesMean(sf))
         IN  ApplySpecial(Column([k \in 1..Len(sf) |->
                                     IF dates[k] = order[j] THEN Mul(sf[k], factor)
                                     ELSE sf[k]]),
                          dates, sp, order, j + 1)
    ELSE ApplySpecial(sf, dates, sp, order, j + 1)

\* the exception generate_forecast(base_year) raises on dp, or "ok"
ForecastOutcome(dp, base_year) ==
    IF dp.processed_data = None THEN "TypeError"
    ELSE LET t == dp.processed_data[1]
         IN  IF Truthy(base_year) /\ ~HasColumn(t, "year") THEN "KeyError"
             ELSE IF ~HasColumn(t, "total_sales") THEN "KeyError"
             ELSE IF Len(SelectData(t, base_year).rows) = 0 THEN "ValueError"
             ELSE WeightsOutcome(dp)

\* the locals of generate_forecast when it returns; order is the order in
\* which the loop of line 119 iterates over the set special_dates
ForecastLocals(dp, base_year, order) ==
    LET t       == dp.processed_data[1]
        data    == SelectData(t, base_year)
        n       == Len(data.rows)
        lr      == Linregress(Series(data.rows, "total_sales"))
        w       == calculate_daily_weights(dp)
        dates   == ForecastDates(t, data)
        week    == Column([k \in 1..periods |-> IsoWeekOf(dates[k])])
        weekday == Column([k \in 1..periods |-> WeekdayOf(dates[k])])
        trend   == Trend(lr, n)
        weekly  == ApplyWeekly(trend, week, weekday, w.weekly_patterns, 1)
        final   == ApplySpecial(weekly, dates, w.special_patterns, order, 1)
    IN  [n |-> n, slope |-> lr.slope, intercept |-> lr.intercept,
         weekly_pattern |-> w.weekly_patterns,
         special_pattern |-> w.special_patterns,
         trend |-> trend, weekly |-> weekly,
         forecast |-> [date |-> dates, sales_forecast |-> final,
                       week |-> week, weekday |-> weekday]]

(***************************************************************************)
(* Inputs: the uploaded files, and the arguments the callers pass.         *)
(***************************************************************************)
MaxBudgetUnits == 1

NumClosable == 1

Columns == <<"Data", "Incasso totale", "N. Scontrini", "Pezzi per scontrino", "Margine">>

Row(d, sales, receipts, items, margin) ==
    [c \in SeqToSet(Columns) |->
        CASE c = "Data" -> d
          [] c = "Incasso totale" -> sales
          [] c = "N. Scontrini" -> receipts
          [] c = "Pezzi per scontrino" -> items
          [] OTHER -> margin]

\* four days across a year's end
FileA ==
    [columns |-> Columns,
     rows |-> <<Row(<<2022, 12, 30>>, 2, 10, 2, <<"3", "0", "%">>),
                Row(<<2022, 12, 31>>, 2, 12, 3, <<"1", "2", ".", "5", "%">>),
                Row(<<2023, 1, 1>>, 5, 20, 2, <<"5", "%", "%">>),
                Row(<<2023, 1, 2>>, 1, 6, 1, <<"4", "0">>)>>]

\* no sales at all
FileZ ==
    [columns |-> Columns,
     rows |-> <<Row(<<2023, 1, 2>>, 0, 0, 0, <<"0", "%">>),
                Row(<<2023, 1, 3>>, 0, 0, 0, <<"0", "%">>)>>]

\* a discount that is no percentage, after a margin column that converts
FileBadPercent ==
    [columns |-> Columns \o <<"Sconto medio">>,
     rows |-> <<Row(<<2023, 2, 1>>, 7, 3, 2, <<"2", "0", "%">>)
                   @@ ("Sconto medio" :> <<"5", "%">>),
                Row(<<2023, 2, 2>>, 9, 4, 2, <<"2", "5", "%">>)
                   @@ ("Sconto medio" :> <<"x", "%">>)>>]

\* a date with month 13
FileBadDate ==
    [columns |-> Columns,
     rows |-> <<Row(<<2023, 2, 1>>, 7, 3, 2, <<"2", "0", "%">>),
                Row(<<2023, 13, 2>>, 9, 4, 2, <<"2", "5", "%">>)>>]

\* no 'Data' column
FileNoData ==
    [columns |-> <<"Incasso totale", "Margine">>,
     rows |-> <<[c \in {"Incasso totale", "Margine"} |->
                   IF c = "Margine" THEN <<"2", "0", "%">> ELSE 7]>>]

Files == {FileA, FileZ, FileBadPercent, FileBadDate, FileNoData}

\* lists of calendar dates: a day after every history, and two days that
\* FileA records and that the horizon after its year 2022 holds
SpecialArgs ==
    {<<>>, <<<<2023, 1, 10>>>>, <<<<2023, 1, 1>>, <<2023, 1, 2>>, <<2023, 1, 1>>>>}

RECURSIVE SortedList(_)
SortedList(S) ==
    IF S = {} THEN <<>>
    ELSE LET m == CHOOSE a \in S : \A b \in S : a <= b
         IN  <<m>> \o SortedList(S \ {m})

\* the lists of ticked weekdays, Sunday (6) downwards
ClosedArgs == {SortedList(S) : S \in SUBSET {6 - i : i \in 0..(NumClosable - 1)}}

BaseYears == {None, Some(2022), Some(2023)}

Budgets == {365 * b : b \in 0..MaxBudgetUnits}

\* the orders in which a set can be iterated
Orders(S) ==
    {o \in [1..Cardinality(S) -> S] : \A i, j \in 1..Cardinality(S) : o[i] = o[j] => i = j}

\* the table generate_forecast(base_year) returns
generate_forecast(dp, base_year, order) ==
    ForecastLocals(dp, base_year, order).forecast

\* groupby('date').agg({c: 'mean'}).mean() for one column c
HistoricalAvg(t, c) ==
    LET ds == SortedSeq({<<t.rows[i]["date"], 0>> : i \in 1..Len(t.rows)})
    IN  SeriesMean(Column([j \in 1..Len(ds) |->
                      SeriesMean(Series(RowsWhere(t.rows, "date", {ds[j][1]}), c))]))

\* lines 132-152: the table distribute_budget(yearly_budget) returns, from the
\* forecast that line 130 obtained
distribute_budget(dp, budget, forecast) ==
    LET t        == dp.processed_data[1]
        sf       == forecast.sales_forecast
        total_forecast == SeriesSum(sf)
        daily_budget == Column([k \in 1..Len(sf) |->
                           Mul(Num(budget), Div(sf[k], total_forecast))])
        sales_mean == SeriesMean(Series(t.rows, "total_sales"))
        avg_receipts == HistoricalAvg(t, "num_receipts")
        avg_items == HistoricalAvg(t, "items_per_receipt")
        target_receipts == Column([k \in 1..Len(sf) |->
                              Mul(Div(daily_budget[k], sales_mean), avg_receipts)])
    IN  [date |-> forecast.date, sales_forecast |-> sf,
         week |-> forecast.week, weekday |-> forecast.weekday,
         daily_budget |-> daily_budget,
         target_receipts |-> target_receipts,
         target_items |-> Column([k \in 1..Len(sf) |->
                                    Mul(target_receipts[k], avg_items)])]

VARIABLES
    raw_data,        \* RetailDataProcessor.raw_data
    processed_data,  \* RetailDataProcessor.processed_data
    closed_days,     \* RetailDataProcessor.closed_days
    special_dates,   \* RetailDataProcessor.special_dates
    yearly_budget,   \* ForecastingEngine.yearly_budget
    forecasts,       \* ForecastingEngine.forecasts
    call,            \* the most recent call: its operation and arguments
    ret,             \* what that call returned or raised
    locals           \* the locals of generate_forecast when that call returned

processor == <<raw_data, processed_data, closed_days, special_dates>>

engine == <<yearly_budget, forecasts>>

vars == <<processor, engine, call, ret, locals>>

\* self.data_processor
data_processor ==
    [processed_data |-> processed_data, closed_days |-> closed_days,
     special_dates |-> special_dates]

\* __init__ of both classes
Init ==
    /\ raw_data = None
    /\ processed_data = None
    /\ closed_days = {}
    /\ special_dates = {}
    /\ yearly_budget = None
    /\ forecasts = None
    /\ call = [op |-> "__init__"]
    /\ ret = [outcome |-> "ok", value |-> None]
    /\ locals = None

\* RetailDataProcessor.load_data(file)
load_data(file) ==
    LET r == LoadData(file)
    IN  /\ raw_data' = IF r.raw = None THEN raw_data ELSE r.raw
        /\ processed_data' = IF r.processed = None THEN processed_data ELSE r.processed
        /\ call' = [op |-> "load_data", file |-> file]
        /\ ret' = [outcome |-> r.outcome,
                   value |-> IF r.outcome = "ok" THEN r.processed ELSE None]
        /\ locals' = None
        /\ UNCHANGED <<closed_days, special_dates, engine>>

\* RetailDataProcessor.set_closed_days(days)
set_closed_days(days) ==
    /\ closed_days' = SeqToSet(days)
    /\ call' = [op |-> "set_closed_days", days |-> days]
    /\ ret' = [outcome |-> "ok", value |-> None]
    /\ locals' = None
    /\ UNCHANGED <<raw_data, processed_data, special_dates, engine>>

\* set_special_dates adding to the dates already held
set_special_dates_adding(dates) ==
    /\ special_dates' = special_dates \cup {ToDatetime(dates[i]) : i \in 1..Len(dates)}
    /\ call' = [op |-> "set_special_dates", dates |-> dates]
    /\ ret' = [outcome |-> "ok", value |-> None]
    /\ locals' = None
    /\ UNCHANGED <<raw_data, processed_data, closed_days, engine>>

\* RetailDataProcessor.set_special_dates(dates)
set_special_dates(dates) ==
    /\ special_dates' = {ToDatetime(dates[i]) : i \in 1..Len(dates)}
    /\ call' = [op |-> "set_special_dates", dates |-> dates]
    /\ ret' = [outcome |-> "ok", value |-> None]
    /\ locals' = None
    /\ UNCHANGED <<raw_data, processed_data, closed_days, engine>>

\* a call of RetailDataProcessor.calculate_daily_weights()
CalculateDailyWeights ==
    LET out == WeightsOutcome(data_processor)
    IN  /\ call' = [op |-> "calculate_daily_weights"]
        /\ ret' = [outcome |-> out,
                   value |-> IF out = "ok"
                             THEN Some(calculate_daily_weights(data_processor))
                             ELSE None]
        /\ locals' = None
        /\ UNCHANGED <<processor, engine>>

\* what generate_forecast(base_year) returns or raises, and its locals then
ForecastReturn(base_year, order) ==
    LET out == ForecastOutcome(data_processor, base_year)
        l   == ForecastLocals(data_processor, base_year, order)
    IN  /\ call' = [op |-> "generate_forecast", base_year |-> base_year,
                    order |-> order]
        /\ ret' = [outcome |-> out,
                   value |-> IF out = "ok" THEN Some(l.forecast) ELSE None]
        /\ locals' = IF out = "ok" THEN Some(l) ELSE None

\* generate_forecast keeping the subset of line 91 in the processor
GenerateForecastKeepingSubset(base_year, order) ==
    /\ ForecastReturn(base_year, order)
    /\ processed_data' =
          IF ForecastOutcome(data_processor, base_year) = "ok"
          THEN Some(SelectData(processed_data[1], base_year))
          ELSE processed_data
    /\ UNCHANGED <<raw_data, closed_days, special_dates, engine>>

\* ForecastingEngine.generate_forecast(base_year)
GenerateForecast(base_year, order) ==
    /\ ForecastReturn(base_year, order)
    /\ UNCHANGED <<processor, engine>>

\* ForecastingEngine.distribute_budget(yearly_budget)
DistributeBudget(budget, order) ==
    LET out == ForecastOutcome(data_processor, None)
        l   == ForecastLocals(data_processor, None, order)
    IN  /\ yearly_budget' = Some(budget)
        /\ call' = [op |-> "distribute_budget", yearly_budget |-> budget,
                    order |-> order]
        /\ ret' = [outcome |-> out,
                   value |-> IF out = "ok"
                             THEN Some(distribute_budget(data_processor, budget,
                                                         l.forecast))
                             ELSE None]
        /\ locals' = IF out = "ok" THEN Some(l) ELSE None
        /\ UNCHANGED <<processor, forecasts>>

Load == \E file \in Files : load_data(file)

SetClosedDays == \E days \in ClosedArgs : set_closed_days(days)

SetSpecialDates == \E dates \in SpecialArgs : set_special_dates(dates)

Forecast ==
    \E base_year \in BaseYears : \E order \in Orders(special_dates) :
        GenerateForecast(base_year, order)

Budget ==
    \E budget \in Budgets : \E order \in Orders(special_dates) :
        DistributeBudget(budget, order)

Next ==
    \/ Load
    \/ SetClosedDays
    \/ SetSpecialDates
    \/ CalculateDailyWeights
    \/ Forecast
    \/ Budget

Spec == Init /\ [][Next]_vars

(***************************************************************************)
(* The claims.                                                             *)
(***************************************************************************)
\* the last call was op and returned normally
Returned(op) == call.op = op /\ ret.outcome = "ok"

\* the rows of the loaded table that base_year selects
SelectedRows(base_year) ==
    {i \in 1..Len(processed_data[1].rows) :
        base_year = None \/ processed_data[1].rows[i]["year"] = base_year[1]}

\* the forecast has 365 rows on consecutive days
ConsecutiveDays(dates) ==
    /\ Len(dates) = 365
    /\ \A k \in 1..364 : dates[k + 1] = dates[k] + 1

\* d is the latest date among the rows in R
LatestDate(d, R) ==
    /\ \E i \in R : processed_data[1].rows[i]["date"] = d
    /\ \A i \in R : processed_data[1].rows[i]["date"] <= d

C2_BudgetConserved ==
    Returned("distribute_budget") =>
        LET t == ret.value[1]
            total == SeriesSum(t.sales_forecast)
        IN  /\ \A k \in 1..Len(t.daily_budget) :
                  /\ ~IsNaN(t.daily_budget[k])
                  /\ call.yearly_budget = 0 => t.daily_budget[k] = Zero
            /\ IsFinite(total) /\ total # Zero
            /\ SeriesSum(t.daily_budget) = Num(call.yearly_budget)

\* C3: a call of load_data that fails leaves processed_data as it was
C3_FailedLoadKeepsTable ==
    [][(call'.op = "load_data" /\ ret'.outcome # "ok")
          => processed_data' = processed_data]_vars

\* C4: with a zero mean of the historical total_sales, distribute_budget ends
\* in a ConfigurationError and returns no table
C4_ZeroMeanIsConfigurationError ==
    (/\ call.op = "distribute_budget"
     /\ processed_data # None
     /\ HasColumn(processed_data[1], "total_sales")
     /\ SeriesMean(Series(processed_data[1].rows, "total_sales")) = Zero)
        => ret.outcome = "ConfigurationError" /\ ret.value = None

\* C5: a forecast, a budget distribution or a weight calculation asked of a
\* processor that holds no table, or a forecast for a base year that selects
\* no row, ends in an EmptyDatasetError and returns nothing
C5_NoDataIsEmptyDatasetError ==
    (/\ call.op \in {"generate_forecast", "distribute_budget",
                     "calculate_daily_weights"}
     /\ \/ processed_data = None
        \/ /\ call.op = "generate_forecast"
           /\ HasColumn(processed_data[1], "year")
           /\ SelectedRows(call.base_year) = {})
        => ret.outcome = "EmptyDatasetError" /\ ret.value = None

\* C6: a call of generate_forecast or distribute_budget, returning or
\* raising, leaves processed_data, closed_days and special_dates as they were
C6_EngineLeavesProcessor ==
    [][call'.op \in {"generate_forecast", "distribute_budget"}
          => UNCHANGED <<processed_data, closed_days, special_dates>>]_vars

\* a forecast and a failed forecast on a configured processor
C6_Witness ==
    /\ call.op \in {"generate_forecast", "distribute_budget"}
    /\ processed_data # None /\ closed_days # {} /\ special_dates # {}

\* the set a setter makes of its argument
ArgumentSet(s) == {s[i] : i \in DOMAIN s}

\* C7: every step leaves each of processed_data, closed_days and special_dates
\* either as it was, or as the argument of the step's call alone makes it:
\* closed_days changes in set_closed_days only, special_dates in
\* set_special_dates only, processed_data in load_data only, and a setter or
\* a successful load replaces what was there
C7_FieldsFollowOwnCall ==
    [][/\ IF call'.op = "set_closed_days"
          THEN closed_days' = ArgumentSet(call'.days)
          ELSE closed_days' = closed_days
       /\ IF call'.op = "set_special_dates"
          THEN special_dates' =
                  ArgumentSet([i \in DOMAIN call'.dates |-> ToDatetime(call'.dates[i])])
          ELSE special_dates' = special_dates
       /\ IF call'.op = "load_data"
          THEN ret'.outcome = "ok" =>
                  /\ processed_data' = ret'.value
                  /\ processed_data'[1].rows # <<>>
                  /\ Len(processed_data'[1].rows) = Len(call'.file.rows)
                  /\ \A i \in 1..Len(call'.file.rows) :
                        /\ processed_data'[1].rows[i]["date"] =
                              ToDatetime(call'.file.rows[i]["Data"])
                        /\ processed_data'[1].rows[i]["total_sales"] =
                              call'.file.rows[i]["Incasso totale"]
          ELSE processed_data' = processed_data]_vars

\* a setter called with a shorter list on a configured processor
C7_Witness ==
    /\ call.op = "set_special_dates"
    /\ Len(call.dates) = 1 /\ Cardinality(special_dates) = 1
    /\ processed_data # None /\ closed_days # {}

\* the special dates in chronological order
Chronological(S) == SortedList(S)

\* C8: the forecast generate_forecast returns is the one that adjusts the
\* special dates in chronological order, however the set iterates
C8_ChronologicalAdjustment ==
    Returned("generate_forecast") =>
        ret.value[1] =
            generate_forecast(data_processor, call.base_year,
                              Chronological(special_dates))

\* the processor with other closed days
WithClosedDays(days) == [data_processor EXCEPT !.closed_days = days]

\* C9: a forecast or a budget table that is returned is the table the same
\* call returns on a processor with the same data and special dates and
\* other closed days: none, or all seven weekdays
C9_ClosedDaysInert ==
    \A days \in {{}, 0..6} :
        /\ Returned("generate_forecast") =>
              ret.value[1] =
                  generate_forecast(WithClosedDays(days), call.base_year, call.order)
        /\ Returned("distribute_budget") =>
              ret.value[1] =
                  distribute_budget(WithClosedDays(days), call.yearly_budget,
                      generate_forecast(WithClosedDays(days), None, call.order))

\* a forecast of a processor with a closed weekday that the data records
C9_Witness ==
    /\ Returned("generate_forecast")
    /\ \E i \in 1..Len(processed_data[1].rows) :
          processed_data[1].rows[i]["weekday"] \in closed_days

\* the base year of the forecast the last call made
BaseYearOfCall == IF call.op = "generate_forecast" THEN call.base_year ELSE None

\* the trend value of row k (1..365): slope * (N + (k - 1)) + intercept
TrendValue(l, k) ==
    Add(Mul(l.slope, Num(Cardinality(SelectedRows(BaseYearOfCall)) + (k - 1))),
        l.intercept)

\* C10: after the weekly step, a row whose (week, weekday) is a key of the
\* weekly pattern holds its trend value times that key's value over the mean
\* of all values, once, and every other row holds its trend value
C10_WeeklyStep ==
    locals # None =>
        LET l  == locals[1]
            wp == l.weekly_pattern
        IN  \A k \in 1..periods :
                LET key == <<l.forecast.week[k], l.forecast.weekday[k]>>
                    J   == {j \in 1..Len(wp.keys) : wp.keys[j] = key}
                IN  IF J = {}
                    THEN l.weekly[k] = TrendValue(l, k)
                    ELSE \A j \in J :
                            l.weekly[k] =
                                Mul(TrendValue(l, k),
                                    Div(wp.values[j], SeriesMean(wp.values)))

\* a forecast with a rising or falling trend and a row of a recorded
\* (week, weekday), beside rows of the same week on other weekdays
C10_Witness ==
    /\ locals # None
    /\ IsFinite(locals[1].slope) /\ locals[1].slope # Zero
    /\ \E k \in 1..periods, j \in 1..Len(locals[1].weekly_pattern.keys) :
          /\ locals[1].weekly_pattern.keys[j] =
                <<locals[1].forecast.week[k], locals[1].forecast.weekday[k]>>
          /\ locals[1].weekly[k] # TrendValue(locals[1], k)
    /\ \E k \in 1..periods :
          /\ \E j \in 1..Len(locals[1].weekly_pattern.keys) :
                locals[1].weekly_pattern.keys[j][1] = locals[1].forecast.week[k]
          /\ \A j \in 1..Len(locals[1].weekly_pattern.keys) :
                locals[1].weekly_pattern.keys[j] #
                   <<locals[1].forecast.week[k], locals[1].forecast.weekday[k]>>

=============================================================================
